---- MODULE Spec2Model ----
(***************************************************************************)
(* Model of src/ragu/app.py: a Flask service that keeps two tables         *)
(* (reviews, admins) in Excel files, every file read and every file write  *)
(* being done under one process-wide lock (file_lock).                     *)
(*                                                                         *)
(* Requests are served by concurrent worker threads (Procs).  A request is *)
(* a sequence of steps: the handler's validation, then store accesses      *)
(* (read_excel_safe / write_excel_safe), each of which first takes the     *)
(* lock and then runs its body and releases the lock, then the response.   *)
(***************************************************************************)
EXTENDS Integers, Sequences, FiniteSets, TLC

\* ---------------------------------------------------------------- bounds
NumProcs == 2
MaxCreates == 2
MaxReadFail == 1
MaxWriteFail == 1

Procs == 1..NumProcs

\* ------------------------------------------------------------- constants
REVIEWS_FILE == "data/reviews.xlsx"
ADMINS_FILE == "data/admins.xlsx"
Paths == {REVIEWS_FILE, ADMINS_FILE}

\* Text values are sequences of one-character strings; NaN is what an empty
\* spreadsheet cell reads back as.
NaN == <<"NaN">>
Absent == <<"ABSENT">>
Number == <<"NUMBER">>
TextFields == {"name", "email", "phone", "review"}

VARIABLES
  files,      \* files[path] = [ok, rows]: the file on disk (ok = readable)
  file_lock,  \* 0 when free, else the thread holding it
  pc,         \* pc[p]: where thread p is in its request
  op,         \* op[p]: the handler thread p runs
  arg,        \* arg[p]: the request's input
  df,         \* df[p]: the handler's DataFrame (df_reviews / df_admins)
  new_review, \* new_review[p]: the record create_review builds
  res,        \* res[p]: the response the handler is about to return
  utcnow,     \* the clock read by datetime.utcnow()
  out,        \* the response delivered by the last step, if any, with the
              \* record of its request
  \* history of the run, read by the properties only
  snap,       \* snap[p]: the rows p's request read
  rstat,      \* rstat[p]: outcome of p's read
  wstat,      \* wstat[p]: outcome of p's write
  known,      \* known[p]: the successes reported before p's request began
  lastW,      \* lastW[path]: the last write that changed the file
  created,    \* the create requests that reported success, in order
  deletedOK,  \* ids of the delete requests that reported success
  anyDelete,  \* some delete request has written the reviews table
  stale,      \* some request wrote a table that had changed since it read it
  readFails,  \* transient read failures so far
  writeFails  \* write failures so far

vars == <<files, file_lock, pc, op, arg, df, new_review, res, utcnow, out,
          snap, rstat, wstat, known, lastW, created, deletedOK, anyDelete,
          stale, readFails, writeFails>>

\* ------------------------------------------------------------ pure code
\* hashlib.sha256(pw.encode()).hexdigest(): one-way, injective on the
\* passwords of the model, never the password itself.
sha256(pw) == <<"sha256", pw>>

\* pd.DataFrame(): no columns, no rows.
EmptyDataFrame == [cols |-> FALSE, rows |-> <<>>]

\* str.strip()
RECURSIVE lstrip(_)
lstrip(t) == IF t # <<>> /\ Head(t) = " " THEN lstrip(Tail(t)) ELSE t
RECURSIVE rstrip(_)
rstrip(t) ==
  IF t # <<>> /\ t[Len(t)] = " " THEN rstrip(SubSeq(t, 1, Len(t) - 1)) ELSE t
strip(t) == rstrip(lstrip(t))

\* Python truthiness of a JSON text value and of a JSON rating value.
text_falsy(t) == t = Absent \/ t = <<>>
rating_falsy(r) ==
  \/ r.k = "absent"
  \/ r.k \in {"int", "float"} /\ r.v = 0 /\ ~r.f

\* int(data['rating']): 0 stands for ValueError/TypeError, which cannot
\* collide with a value since 0 is out of range anyway.
rating_raises(r) == r.k = "bad"
rating_int(r) == r.v

Max(S) == CHOOSE x \in S : \A y \in S : y <= x
Ids(rows) == {rows[k].id : k \in DOMAIN rows}

get_next_id_reuses_max(d) ==
  IF Len(d.rows) = 0 \/ ~d.cols THEN 1 ELSE Max(Ids(d.rows))

get_next_id_from_zero(d) ==
  IF Len(d.rows) = 0 \/ ~d.cols THEN 0 ELSE Max(Ids(d.rows)) + 1

get_next_id(d) ==
  IF Len(d.rows) = 0 \/ ~d.cols THEN 1 ELSE Max(Ids(d.rows)) + 1

\* DataFrame.to_excel: an empty string is written as an empty cell, which
\* reads back as NaN.
excel_cell(f, v) == IF f \in TextFields /\ v = <<>> THEN NaN ELSE v
to_excel(rows) ==
  [k \in DOMAIN rows |->
     [f \in DOMAIN rows[k] |-> excel_cell(f, rows[k][f])]]

\* df.sort_values('created_at', ascending=False): stable.
RECURSIVE insert_desc(_, _)
insert_desc(sorted, r) ==
  IF sorted = <<>> THEN <<r>>
  ELSE IF Head(sorted).created_at >= r.created_at
       THEN <<Head(sorted)>> \o insert_desc(Tail(sorted), r)
       ELSE <<r>> \o sorted
RECURSIVE sort_values_desc(_)
sort_values_desc(rows) ==
  IF rows = <<>> THEN <<>>
  ELSE insert_desc(sort_values_desc(SubSeq(rows, 1, Len(rows) - 1)),
                   rows[Len(rows)])

\* df.head(n)
head(rows, n) ==
  IF n >= 0 THEN SubSeq(rows, 1, IF n < Len(rows) THEN n ELSE Len(rows))
  ELSE SubSeq(rows, 1, IF Len(rows) + n > 0 THEN Len(rows) + n ELSE 0)

\* ------------------------------------------------------------- the store
\* init_excel_files: reviews has its columns and no row, admins the
\* default admin.
SeedAdmins ==
  <<[id |-> 1, username |-> "admin", password_hash |-> sha256("admin123")]>>

acquire_unguarded(p) == file_lock' = p

\* `with file_lock:`
acquire(p) == file_lock = 0 /\ file_lock' = p
release == file_lock' = 0

\* The body of read_excel_safe: the file's table, or pd.DataFrame() when the
\* file is missing, empty or unreadable, or when the read raises.
read_excel_safe(path) ==
  IF files[path].ok
  THEN {[cols |-> TRUE, rows |-> files[path].rows]}
         \cup (IF readFails < MaxReadFail THEN {EmptyDataFrame} ELSE {})
  ELSE {EmptyDataFrame}

\* The body of write_excel_safe: True and the whole file replaced, or False
\* with the file left as it was or left truncated.
write_excel_safe(path, d) ==
  {[ok |-> TRUE, file |-> [ok |-> TRUE, rows |-> to_excel(d.rows)]]}
    \cup (IF writeFails < MaxWriteFail
          THEN {[ok |-> FALSE, file |-> files[path]],
                [ok |-> FALSE, file |-> [ok |-> FALSE, rows |-> <<>>]]}
          ELSE {})

\* ---------------------------------------------------------------- inputs
R(k, v, f) == [k |-> k, v |-> v, f |-> f]
Data(n, e, ph, rv, rt) ==
  [nodata |-> FALSE, name |-> n, email |-> e, phone |-> ph, review |-> rv,
   rating |-> rt]
NoData ==
  [nodata |-> TRUE, name |-> Absent, email |-> Absent, phone |-> Absent,
   review |-> Absent, rating |-> R("absent", 0, FALSE)]

\* Request bodies of POST /api/reviews that the handler accepts: padded
\* text with an integer rating, and plain text with a numeric string as
\* rating.
ValidCreates ==
  { Data(<<" ", "a", " ">>, <<"a">>, <<"a">>, <<"a", " ">>, R("int", 5, FALSE)),
    Data(<<"b">>, <<"b">>, <<"b">>, <<"b">>, R("str", 1, FALSE)) }

\* Accepted too: a name of blanks only, and the rating 4.5.
BlankCreate ==
  Data(<<" ">>, <<"a">>, <<"a">>, <<"a">>, R("float", 4, TRUE))

\* Refused: an empty field, an absent field with the rating 0, the ratings 6
\* and non-numeric, a phone sent as a JSON number, no body.
InvalidCreates ==
  { Data(<<"a">>, <<>>, <<"a">>, <<"a">>, R("int", 3, FALSE)),
    Data(<<"a">>, <<"a">>, <<"a">>, Absent, R("int", 0, FALSE)),
    Data(<<"a">>, <<"a">>, <<"a">>, <<"a">>, R("int", 6, FALSE)),
    Data(<<"a">>, <<"a">>, <<"a">>, <<"a">>, R("bad", 0, FALSE)),
    Data(<<"a">>, <<"a">>, Number, <<"a">>, R("int", 2, FALSE)),
    NoData }

ReviewIds == 1..MaxCreates
Limits == {0, 1}

Cred(u, pw) == [nodata |-> FALSE, username |-> u, password |-> pw]
LoginInputs ==
  { Cred("admin", "admin123"), Cred("admin", "newpw"), Cred("bob", "admin123"),
    Cred("", "admin123"), [nodata |-> TRUE, username |-> "", password |-> ""] }

Change(u, o, n) ==
  [nodata |-> FALSE, username |-> u, old_password |-> o, new_password |-> n]
ChangeInputs ==
  { Change("admin", "admin123", "newpw"), Change("admin", "newpw", "admin123"),
    Change("admin", "admin123", "pw3"), Change("admin", "admin123", "admin123"),
    Change("bob", "admin123", "newpw"),
    Change("admin", "", "newpw"),
    [nodata |-> TRUE, username |-> "", old_password |-> "",
     new_password |-> ""] }

\* -------------------------------------------------------------- responses
NoBody == <<>>
Response(status, body) == [status |-> status, body |-> body]
NoResponse == Response(0, NoBody)

\* A write that changed a file: the thread whose request made it (0 once that
\* request has responded), the handler ("failed" for a write that failed and
\* left the file truncated), and what it wrote.
Write(by, o, id, a) == [by |-> by, op |-> o, id |-> id, arg |-> a]
NoChange == Change("", "", "")
InitWrite == Write(0, "init", 0, NoChange)

\* What a read-only request knows when it begins: w, the last successful
\* write of its table if that write's request has responded; c, how many
\* creates have reported success; d, the ids whose delete has reported
\* success (for a get, the id it asks for at most).
NoKnown == [w |-> InitWrite, c |-> 0, d |-> {}]

\* The record of a delivered response: saw is the write known when the
\* request began if it was still the last one at the request's read.
Out(o, a, response, rs, k, saw, table) ==
  [op |-> o, arg |-> a, res |-> response, rstat |-> rs, known |-> k,
   saw |-> saw, table |-> table]
NoOut == Out("none", NoBody, NoResponse, "none", NoKnown, InitWrite, <<>>)

Init ==
  /\ files = [path \in Paths |->
                IF path = REVIEWS_FILE THEN [ok |-> TRUE, rows |-> <<>>]
                ELSE [ok |-> TRUE, rows |-> SeedAdmins]]
  /\ file_lock = 0
  /\ pc = [p \in Procs |-> "idle"]
  /\ op = [p \in Procs |-> "none"]
  /\ arg = [p \in Procs |-> NoBody]
  /\ df = [p \in Procs |-> EmptyDataFrame]
  /\ new_review = [p \in Procs |-> NoBody]
  /\ res = [p \in Procs |-> NoResponse]
  /\ utcnow = 1
  /\ out = NoOut
  /\ snap = [p \in Procs |-> <<>>]
  /\ rstat = [p \in Procs |-> "none"]
  /\ wstat = [p \in Procs |-> "none"]
  /\ known = [p \in Procs |-> NoKnown]
  /\ lastW = [path \in Paths |-> InitWrite]
  /\ created = <<>>
  /\ deletedOK = {}
  /\ anyDelete = FALSE
  /\ stale = FALSE
  /\ readFails = 0
  /\ writeFails = 0

\* ------------------------------------------------------- request steps
\* The thread is free again: the handler's locals are gone.
Clear(p) ==
  /\ pc' = [pc EXCEPT ![p] = "idle"]
  /\ op' = [op EXCEPT ![p] = "none"]
  /\ arg' = [arg EXCEPT ![p] = NoBody]
  /\ df' = [df EXCEPT ![p] = EmptyDataFrame]
  /\ new_review' = [new_review EXCEPT ![p] = NoBody]
  /\ res' = [res EXCEPT ![p] = NoResponse]
  /\ snap' = [snap EXCEPT ![p] = <<>>]
  /\ rstat' = [rstat EXCEPT ![p] = "none"]
  /\ wstat' = [wstat EXCEPT ![p] = "none"]
  /\ known' = [known EXCEPT ![p] = NoKnown]

PathOf(o) == IF o \in {"login", "change_password"} THEN ADMINS_FILE
             ELSE REVIEWS_FILE

Known(o, a) ==
  [w |-> IF o \in {"get", "list", "login"} /\ lastW[PathOf(o)].by = 0
         THEN lastW[PathOf(o)] ELSE InitWrite,
   c |-> IF o = "get" THEN Len(created) ELSE 0,
   d |-> IF o = "get" THEN deletedOK \cap {a}
         ELSE IF o = "list" THEN deletedOK ELSE {}]

\* The HTTP layer hands a request to a free thread; the handler runs up to
\* its first store access, or returns at once with `early` when that is a
\* status.
Dispatch(p, o, a, early) ==
  /\ pc[p] = "idle"
  /\ IF early = 0
     THEN /\ pc' = [pc EXCEPT ![p] = "read"]
          /\ op' = [op EXCEPT ![p] = o]
          /\ arg' = [arg EXCEPT ![p] = a]
          /\ known' = [known EXCEPT ![p] = Known(o, a)]
          /\ out' = NoOut
     ELSE /\ out' = Out(o, a, Response(early, NoBody), "none", NoKnown,
                        InitWrite, <<>>)
          /\ UNCHANGED <<pc, op, arg, known>>
  /\ UNCHANGED <<files, file_lock, df, new_review, res, utcnow, snap, rstat,
                 wstat, lastW, created, deletedOK, anyDelete, stale, readFails,
                 writeFails>>

\* Entering read_excel_safe / write_excel_safe: `with file_lock:`.
read_excel_safe_enter(p) ==
  /\ pc[p] = "read"
  /\ acquire(p)
  /\ pc' = [pc EXCEPT ![p] = "reading"]
  /\ out' = NoOut
  /\ UNCHANGED <<files, op, arg, df, new_review, res, utcnow, snap, rstat,
                 wstat, known, lastW, created, deletedOK, anyDelete, stale,
                 readFails, writeFails>>

write_excel_safe_enter(p) ==
  /\ pc[p] = "write"
  /\ acquire(p)
  /\ pc' = [pc EXCEPT ![p] = "writing"]
  /\ out' = NoOut
  /\ UNCHANGED <<files, op, arg, df, new_review, res, utcnow, snap, rstat,
                 wstat, known, lastW, created, deletedOK, anyDelete, stale,
                 readFails, writeFails>>

\* The outcome of a read that returned d.
ReadStatus(path, d) ==
  IF d.cols THEN "ok"
  ELSE IF files[path].ok /\ Len(files[path].rows) > 0 THEN "lostN" ELSE "lost0"

\* Leaving read_excel_safe with d.
ReadDone(p, path, d) ==
  /\ release
  /\ readFails' = IF files[path].ok /\ ~d.cols THEN readFails + 1 ELSE readFails
  /\ UNCHANGED <<files, lastW, created, deletedOK, anyDelete, stale,
                 writeFails>>

\* The handler returns right after its read.
Return(p, path, d, status, body) ==
  /\ out' = Out(op[p], arg[p], Response(status, body), ReadStatus(path, d),
                known[p],
                IF lastW[path] = known[p].w THEN known[p].w ELSE InitWrite,
                IF op[p] = "login" THEN d.rows ELSE <<>>)
  /\ Clear(p)
  /\ UNCHANGED utcnow

\* The handler goes on to write d2 after reading d.
Continue(p, path, d, d2, rec) ==
  /\ pc' = [pc EXCEPT ![p] = "write"]
  /\ df' = [df EXCEPT ![p] = d2]
  /\ new_review' = [new_review EXCEPT ![p] = rec]
  /\ snap' = [snap EXCEPT ![p] = d.rows]
  /\ rstat' = [rstat EXCEPT ![p] = ReadStatus(path, d)]
  /\ out' = NoOut
  /\ UNCHANGED <<op, arg, res, wstat, known>>

\* Leaving write_excel_safe with outcome w and the response `response`.
WriteDone(p, path, w, response, wrote) ==
  /\ release
  /\ files' = [files EXCEPT ![path] = w.file]
  /\ writeFails' = IF w.ok THEN writeFails ELSE writeFails + 1
  /\ wstat' = [wstat EXCEPT ![p] = IF w.ok THEN "ok" ELSE "failed"]
  /\ lastW' = IF w.ok THEN [lastW EXCEPT ![path] = wrote]
              ELSE IF w.file # files[path]
              THEN [lastW EXCEPT ![path] = Write(0, "failed", 0, NoChange)]
              ELSE lastW
  /\ stale' = (stale \/ (w.ok /\ snap[p] # files[path].rows))
  /\ res' = [res EXCEPT ![p] = response]
  /\ pc' = [pc EXCEPT ![p] = "respond"]
  /\ out' = NoOut
  /\ UNCHANGED <<op, arg, df, new_review, utcnow, snap, rstat, known, created,
                 deletedOK, readFails>>

Matching(rows, f, v) == SelectSeq(rows, LAMBDA r : r[f] = v)

\* ------------------------------------------------- GET /api/reviews/<id>
get_review_request(p, review_id) == Dispatch(p, "get", review_id, 0)

\* df_reviews['id'] of a DataFrame without columns raises KeyError, which
\* this handler reports as 404 too.
get_review_read(p) ==
  /\ pc[p] = "reading" /\ op[p] = "get"
  /\ \E d \in read_excel_safe(REVIEWS_FILE) :
       /\ ReadDone(p, REVIEWS_FILE, d)
       /\ LET review == Matching(d.rows, "id", arg[p]) IN
          IF ~d.cols \/ review = <<>>
          THEN Return(p, REVIEWS_FILE, d, 404, NoBody)
          ELSE Return(p, REVIEWS_FILE, d, 200, review[1])

\* ------------------------------------------------------ GET /api/reviews
get_reviews_request(p, limit) == Dispatch(p, "list", limit, 0)

get_reviews_read(p) ==
  /\ pc[p] = "reading" /\ op[p] = "list"
  /\ \E d \in read_excel_safe(REVIEWS_FILE) :
       /\ ReadDone(p, REVIEWS_FILE, d)
       /\ IF Len(d.rows) = 0
          THEN Return(p, REVIEWS_FILE, d, 200, <<>>)
          ELSE LET sorted == sort_values_desc(d.rows) IN
               Return(p, REVIEWS_FILE, d, 200,
                      IF arg[p] # 0 THEN head(sorted, arg[p]) ELSE sorted)

\* ----------------------------------------------------- POST /api/reviews
missing_fields(data) ==
  {f \in TextFields : text_falsy(data[f])}
    \cup (IF rating_falsy(data.rating) THEN {"rating"} ELSE {})

create_review_validate(data) ==
  IF data.nodata THEN 400
  ELSE IF missing_fields(data) # {} THEN 400
  ELSE IF rating_raises(data.rating) THEN 400
  ELSE IF rating_int(data.rating) < 1 \/ rating_int(data.rating) > 5 THEN 400
  ELSE 0

\* Creates that will still read the clock.
Stamping == {q \in Procs : op[q] = "create" /\ pc[q] \in {"read", "reading"}}

create_review_request(p, data) ==
  /\ utcnow + Cardinality(Stamping) <= MaxCreates
  /\ Dispatch(p, "create", data, create_review_validate(data))

\* The record of lines 266-274.
build_review(data, new_id, now) ==
  [id |-> new_id,
   name |-> strip(data.name),
   email |-> strip(data.email),
   phone |-> strip(data.phone),
   review |-> strip(data.review),
   rating |-> rating_int(data.rating),
   created_at |-> now]

\* read_excel_safe, get_next_id, the new record and pd.concat; .strip() of a
\* value that is no string raises, which the handler turns into a 500.
create_review_read(p) ==
  /\ pc[p] = "reading" /\ op[p] = "create"
  /\ \E d \in read_excel_safe(REVIEWS_FILE) :
       /\ ReadDone(p, REVIEWS_FILE, d)
       /\ IF \E f \in TextFields : arg[p][f] = Number
          THEN Return(p, REVIEWS_FILE, d, 500, NoBody)
          ELSE LET rec == build_review(arg[p], get_next_id(d), utcnow) IN
               /\ Continue(p, REVIEWS_FILE, d,
                           [cols |-> TRUE, rows |-> Append(d.rows, rec)], rec)
               /\ utcnow' = utcnow + 1

create_review_write(p) ==
  /\ pc[p] = "writing" /\ op[p] = "create"
  /\ \E w \in write_excel_safe(REVIEWS_FILE, df[p]) :
       WriteDone(p, REVIEWS_FILE, w,
                 IF w.ok
                 THEN Response(201, [id |-> new_review[p].id,
                                     review |-> new_review[p]])
                 ELSE Response(500, NoBody),
                 Write(p, "create", new_review[p].id, NoChange))
  /\ UNCHANGED anyDelete

\* --------------------------------------------- DELETE /api/reviews/<id>
delete_review_request(p, review_id) == Dispatch(p, "delete", review_id, 0)

\* df_reviews[df_reviews['id'] != review_id]
without_id(rows, review_id) == SelectSeq(rows, LAMBDA r : r.id # review_id)

\* df_reviews['id'] of a DataFrame without columns raises KeyError: 500.
delete_review_read(p) ==
  /\ pc[p] = "reading" /\ op[p] = "delete"
  /\ \E d \in read_excel_safe(REVIEWS_FILE) :
       /\ ReadDone(p, REVIEWS_FILE, d)
       /\ IF ~d.cols THEN Return(p, REVIEWS_FILE, d, 500, NoBody)
          ELSE IF Matching(d.rows, "id", arg[p]) = <<>>
          THEN Return(p, REVIEWS_FILE, d, 404, NoBody)
          ELSE /\ Continue(p, REVIEWS_FILE, d,
                           [cols |-> TRUE, rows |-> without_id(d.rows, arg[p])],
                           NoBody)
               /\ UNCHANGED utcnow

delete_review_write(p) ==
  /\ pc[p] = "writing" /\ op[p] = "delete"
  /\ \E w \in write_excel_safe(REVIEWS_FILE, df[p]) :
       /\ WriteDone(p, REVIEWS_FILE, w,
                    Response(IF w.ok THEN 200 ELSE 500, NoBody),
                    Write(p, "delete", arg[p], NoChange))
       /\ anyDelete' = (anyDelete \/ w.ok)

\* ------------------------------------------------ POST /api/admin/login
admin_login_validate(data) ==
  IF data.nodata THEN 400
  ELSE IF data.username = "" \/ data.password = "" THEN 400
  ELSE 0

admin_login_request(p, data) ==
  Dispatch(p, "login", data, admin_login_validate(data))

credentials_match_username_only(rows, username, password) ==
  Matching(rows, "username", username) # <<>>

\* Lines 412-416: the first row of that username, and its hash.
credentials_match(rows, username, password) ==
  LET admin == Matching(rows, "username", username) IN
    /\ admin # <<>>
    /\ admin[1].password_hash = sha256(password)

\* df_admins['username'] of a DataFrame without columns raises KeyError: 500.
admin_login_read(p) ==
  /\ pc[p] = "reading" /\ op[p] = "login"
  /\ \E d \in read_excel_safe(ADMINS_FILE) :
       /\ ReadDone(p, ADMINS_FILE, d)
       /\ IF ~d.cols THEN Return(p, ADMINS_FILE, d, 500, NoBody)
          ELSE IF credentials_match(d.rows, arg[p].username, arg[p].password)
          THEN Return(p, ADMINS_FILE, d, 200, NoBody)
          ELSE Return(p, ADMINS_FILE, d, 401, NoBody)

\* -------------------------------------- POST /api/admin/change-password
\* data.get on a missing body raises: 500.
change_password_validate(data) ==
  IF data.nodata THEN 500
  ELSE IF data.username = "" \/ data.old_password = "" \/ data.new_password = ""
  THEN 400
  ELSE 0

change_password_request(p, data) ==
  Dispatch(p, "change_password", data, change_password_validate(data))

set_password_hash_forgets(rows, username, new_hash) == rows

\* df_admins.loc[admin_idx[0], 'password_hash'] = new_hash
set_password_hash(rows, username, new_hash) ==
  LET idx == CHOOSE k \in DOMAIN rows :
               /\ rows[k].username = username
               /\ \A j \in 1..(k - 1) : rows[j].username # username
  IN [rows EXCEPT ![idx].password_hash = new_hash]

change_password_read(p) ==
  /\ pc[p] = "reading" /\ op[p] = "change_password"
  /\ \E d \in read_excel_safe(ADMINS_FILE) :
       /\ ReadDone(p, ADMINS_FILE, d)
       /\ IF ~d.cols THEN Return(p, ADMINS_FILE, d, 500, NoBody)
          ELSE IF credentials_match(d.rows, arg[p].username, arg[p].old_password)
          THEN /\ Continue(p, ADMINS_FILE, d,
                           [cols |-> TRUE,
                            rows |-> set_password_hash(d.rows, arg[p].username,
                                       sha256(arg[p].new_password))],
                           NoBody)
               /\ UNCHANGED utcnow
          ELSE Return(p, ADMINS_FILE, d, 401, NoBody)

\* The status a change-password request returns after its write: a failed
\* write falls through to the 'Invalid credentials' return of line 468.
change_password_status(ok) == IF ok THEN 200 ELSE 401

change_password_write(p) ==
  /\ pc[p] = "writing" /\ op[p] = "change_password"
  /\ \E w \in write_excel_safe(ADMINS_FILE, df[p]) :
       WriteDone(p, ADMINS_FILE, w,
                 Response(change_password_status(w.ok), NoBody),
                 Write(p, "change_password", 0, arg[p]))
  /\ UNCHANGED anyDelete

\* ---------------------------------------------------------- the response
\* The handler returns after its write: the client has the response.
respond(p) ==
  /\ pc[p] = "respond"
  /\ out' = Out(op[p], arg[p], res[p], rstat[p], NoKnown, InitWrite, <<>>)
  /\ created' = IF op[p] = "create" /\ res[p].status = 201
                THEN Append(created, [id |-> res[p].body.id, data |-> arg[p]])
                ELSE created
  /\ deletedOK' = IF op[p] = "delete" /\ res[p].status = 200
                  THEN deletedOK \cup {arg[p]} ELSE deletedOK
  /\ lastW' = [path \in Paths |->
                 IF lastW[path].by = p THEN [lastW[path] EXCEPT !.by = 0]
                 ELSE lastW[path]]
  /\ Clear(p)
  /\ UNCHANGED <<files, file_lock, utcnow, anyDelete, stale, readFails,
                 writeFails>>

\* The steps every request shares.
StoreStep(p) ==
  \/ read_excel_safe_enter(p)
  \/ write_excel_safe_enter(p)
  \/ respond(p)

ReviewStep(p, ids, limits, creates) ==
  \/ \E i \in ids : get_review_request(p, i)
  \/ get_review_read(p)
  \/ \E l \in limits : get_reviews_request(p, l)
  \/ get_reviews_read(p)
  \/ \E data \in creates : create_review_request(p, data)
  \/ create_review_read(p)
  \/ create_review_write(p)
  \/ \E i \in ids : delete_review_request(p, i)
  \/ delete_review_read(p)
  \/ delete_review_write(p)

AdminStep(p, logins, changes) ==
  \/ \E data \in logins : admin_login_request(p, data)
  \/ admin_login_read(p)
  \/ \E data \in changes : change_password_request(p, data)
  \/ change_password_read(p)
  \/ change_password_write(p)

\* The handlers of the reviews table, on every input of the model.
NextReviews ==
  \E p \in Procs :
    ReviewStep(p, ReviewIds, Limits, ValidCreates \cup InvalidCreates)
      \/ StoreStep(p)

\* The handlers of the admins table, on every input of the model.
NextAdmins ==
  \E p \in Procs : AdminStep(p, LoginInputs, ChangeInputs) \/ StoreStep(p)

\* All handlers, both tables, on few inputs each.
Next ==
  \E p \in Procs :
    \/ ReviewStep(p, {1}, {0}, {BlankCreate, NoData})
    \/ AdminStep(p, {Cred("admin", "admin123"), Cred("bob", "admin123")},
                 {Change("admin", "admin123", "newpw"),
                  Change("admin", "newpw", "admin123")})
    \/ StoreStep(p)

Spec == Init /\ [][Next]_vars
SpecReviews == Init /\ [][NextReviews]_vars
SpecAdmins == Init /\ [][NextAdmins]_vars

\* ======================================================== the properties
Reviews == files[REVIEWS_FILE].rows
Mutating == {"create", "delete", "change_password"}
InStore(p) == pc[p] \in {"reading", "writing"}
NoFault == readFails = 0 /\ writeFails = 0

\* ------------------------------------------------------------------- C1
\* C1: from an empty reviews table, once N concurrent creates with valid
\* input have all reported success (no delete, no failed read or write),
\* the persisted table holds exactly N rows, with the ids 1..N in order.
C1_ConcurrentCreatesGiveIds1toN ==
  ((\A p \in Procs : pc[p] = "idle") /\ ~anyDelete /\ NoFault)
    => /\ Len(Reviews) = Len(created)
       /\ \A k \in DOMAIN Reviews : Reviews[k].id = k

\* ------------------------------------------------------------------- C2
\* C2: at most one request is inside a store access (the body of
\* read_excel_safe or of write_excel_safe), whatever table each one is for.
C2_OneStoreAccessAtATime ==
  Cardinality({p \in Procs : InStore(p)}) <= 1

\* A request is inside an access of the reviews file while another one is
\* at the entrance of an access of the admins file.
C2_Witness ==
  \E p, q \in Procs :
    /\ InStore(p) /\ PathOf(op[p]) = REVIEWS_FILE
    /\ pc[q] \in {"read", "write"} /\ PathOf(op[q]) = ADMINS_FILE

\* ------------------------------------------------------------------- C3
\* C3: between a mutating request's read of a table and its write-back, no
\* other request is inside a store access.
C3_NoAccessInsideReadModifyWrite ==
  \A p, q \in Procs :
    (p # q /\ op[p] \in Mutating /\ pc[p] = "write") => ~InStore(q)

\* ------------------------------------------------------------------- C4
\* The inputs the claim is about: text that is not empty once trimmed, an
\* integer rating in 1..5.
CleanInput(data) ==
  /\ \A f \in TextFields : data[f] \notin {Absent, Number} /\ strip(data[f]) # <<>>
  /\ data.rating.k \in {"int", "str"}
  /\ data.rating.v \in 1..5

\* C4: a get(i) that begins after a create reported success with id i
\* returns Found with that create's trimmed name, email, phone and review,
\* its rating and the id i, whatever ran concurrently with the create
\* (stated for runs without delete and without failed read or write).
C4_GetReturnsWhatCreateReported ==
  (out.op = "get" /\ out.rstat = "ok" /\ ~anyDelete /\ NoFault)
    => \A k \in 1..out.known.c :
         (created[k].id = out.arg /\ CleanInput(created[k].data))
           => /\ out.res.status = 200
              /\ out.res.body.id = out.arg
              /\ \A f \in TextFields :
                   out.res.body[f] = strip(created[k].data[f])
              /\ out.res.body.rating = created[k].data.rating.v

\* ------------------------------------------------------------------- C5
\* C5: a get(i) that begins after delete(i) reported success
\* returns NotFound and a list that begins after it omits i, whatever
\* happened in between (further creates included); and the delete's write
\* leaves the other rows of the persisted table in place.  Stated for runs
\* in which no request wrote over a table changed since its read and no read
\* or write failed.
C5_DeletedIdNeverComesBack ==
  (~stale /\ NoFault)
    => /\ (out.op = "get" /\ out.arg \in out.known.d) => out.res.status = 404
       /\ out.op = "list"
            => \A k \in DOMAIN out.res.body : out.res.body[k].id \notin out.known.d
       /\ \A p \in Procs :
            (pc[p] = "respond" /\ op[p] = "delete" /\ wstat[p] = "ok"
               /\ lastW[REVIEWS_FILE].by = p)
              => Reviews = SelectSeq(snap[p], LAMBDA r : r.id # arg[p])

C7_FailedWriteReports500 ==
  \A p \in Procs :
    (pc[p] = "respond" /\ wstat[p] = "failed") => res[p].status = 500

\* ------------------------------------------------------------------- C8
\* C8: in the persisted reviews table no two rows share an id and every
\* rating is an integer in 1..5.
C8_UniqueIdsAndRatings ==
  /\ \A j, k \in DOMAIN Reviews : j # k => Reviews[j].id # Reviews[k].id
  /\ \A k \in DOMAIN Reviews : Reviews[k].rating \in 1..5

\* Two rows are stored after a request wrote over a table that had changed
\* since it read it.
C8_Witness == Len(Reviews) >= 2 /\ stale

\* ------------------------------------------------------------------- C9
\* C9: login succeeds only if the admins table it read has a row with that
\* username and the hash of that password; on a table it could read, an
\* unknown username and a wrong password both give 401; and on the seeded
\* table login("admin", "admin123") succeeds.
C9_LoginNeedsUsernameAndHash ==
  out.op = "login"
    => LET rows == out.table
           user == {k \in DOMAIN rows : rows[k].username = out.arg.username}
           both == {k \in user : rows[k].password_hash = sha256(out.arg.password)}
       IN /\ out.res.status = 200 => both # {}
          /\ (out.rstat = "ok" /\ (user = {} \/ both = {}))
               => out.res.status = 401
          /\ (out.table = SeedAdmins /\ out.arg = Cred("admin", "admin123"))
               => out.res.status = 200

\* A login with a wrong password on a table that knows the username.
C9_Witness ==
  /\ out.op = "login" /\ out.rstat = "ok" /\ out.res.status = 401
  /\ \E k \in DOMAIN out.table : out.table[k].username = out.arg.username

\* ------------------------------------------------------------------ C10
\* C10: a create whose read degraded to no rows and whose write succeeded
\* reports success with id 1, and its write leaves the new row alone in the
\* persisted table.
C10_CreateAfterFailedReadOverwrites ==
  \A p \in Procs :
    (/\ pc[p] = "respond" /\ op[p] = "create"
     /\ rstat[p] \in {"lostN", "lost0"} /\ wstat[p] = "ok")
      => /\ res[p].status = 201
         /\ res[p].body.id = 1
         /\ lastW[REVIEWS_FILE].by = p
              => /\ Len(Reviews) = 1
                 /\ Reviews[1].id = 1
                 /\ Reviews[1].created_at = new_review[p].created_at

\* The read failed while the table held rows, and the row just written is
\* the only one left.
C10_Witness ==
  \E p \in Procs :
    /\ pc[p] = "respond" /\ op[p] = "create"
    /\ rstat[p] = "lostN" /\ wstat[p] = "ok"
    /\ lastW[REVIEWS_FILE].by = p
    /\ Len(Reviews) = 1
====
